---- MODULE Spec2Model ----
(***************************************************************************)
(* Folder-to-library reconciliation and persistence of the sound-effect    *)
(* library manager: the directory scan (scanLibrary), the metadata store   *)
(* (saveMetadata, on-disk file plus local backup), the mutation handlers   *)
(* of App.tsx and the batch tagging run.                                   *)
(*                                                                         *)
(* A file name is the sequence of its dot-separated components:            *)
(* "kick.wav" is <<"kick", "wav">>, "Snare.MP3.mp3" is                     *)
(* <<"Snare", "MP3", "mp3">>.  Appending ".mp3" appends a component,       *)
(* endsWith('.mp3') looks at the last one.  A display name is a sequence   *)
(* of components too (the file name with the extension stripped).          *)
(***************************************************************************)
EXTENDS Naturals, Sequences, FiniteSets, TLC

\* ------------------------------------------------------------------ bounds
\* How many gestures (handler calls by the user, changes of the folder) a run has.
MaxOps == 4

\* Batch callbacks that may be alive at once.
MaxRuns == 2

\* --------------------------------------------------------------- constants
\* The labels are written here without their diacritics.
UNCATEGORIZED == "Chua phan loai"
HORROR == "Kinh di"
NEWLY_DETECTED == "newly-detected"

DEFAULT_CATEGORIES ==
    << UNCATEGORIZED, "Dien anh", "Foley (Tieng dong)", "Giao dien/UI", "Moi truong",
       HORROR, "Hai huoc", "Hanh dong", "Khoa hoc vien tuong" >>

\* Extensions the specification lists as supported audio.
SpecAudioExtensions == {"mp3", "wav", "ogg", "m4a", "aac", "wma", "flac"}

\* ----------------------------------------------------------------- domains
Kick == <<"kick", "wav">>
Snare == <<"Snare", "MP3">>
Boom == <<"boom", "flac">>

\* Files the user may drop into, or remove from, the folder outside the app.
DirNames == {Kick, Snare, Boom}

\* Files in subfolders of the folder: one level down, and two levels down.
SubTom == <<"drums/tom", "wav">>
DeepRim == <<"drums/old/rim", "wav">>
NestedNames == {SubTom, DeepRim}

\* The files a user uploads: the name and the declared type of the blob.
Uploads == { [name |-> Kick, type |-> "audio/mpeg"], [name |-> <<"hit">>, type |-> "audio/wav"] }

\* The categories of the sidebar a record is dragged onto.
DropTargets == {UNCATEGORIZED, HORROR, "Custom"}

\* Category names typed into the sidebar's "new category" form.
CategoryInputs == {"Custom", UNCATEGORIZED}

\* What the tagging service answers: a name, one category, some tags.
AiCategories == {UNCATEGORIZED, HORROR}
AiResults == { [name |-> <<"AiName">>, category |-> c, tags |-> <<"ai">>] : c \in AiCategories }

RenameInputs == { <<"Renamed">> }

\* ----------------------------------------------------------------- helpers
Range(s) == { s[i] : i \in 1..Len(s) }

\* String.prototype.toLowerCase on one component.
Lower(c) ==
    CASE c = "MP3" -> "mp3"
      [] c = "WAV" -> "wav"
      [] c = "Snare" -> "snare"
      [] c = "AiName" -> "ainame"
      [] c = "Renamed" -> "renamed"
      [] OTHER -> c

LowerName(fn) == [i \in 1..Len(fn) |-> Lower(fn[i])]

\* name.endsWith('.' + ext): a dot precedes the last component.
EndsWith(fn, ext) == Len(fn) >= 2 /\ fn[Len(fn)] = ext

\* The scan's test of a directory entry's name.
IsAudioScan(fn) ==
    LET name == LowerName(fn) IN
    EndsWith(name, "mp3") \/ EndsWith(name, "wav") \/ EndsWith(name, "ogg")
        \/ EndsWith(name, "m4a")

\* The upload form's filter: an audio MIME type, or one of seven extensions in any
\* case.
IsAudioUpload(fn, type) ==
    \/ type \in {"audio/mpeg", "audio/wav"}
    \/ (Len(fn) >= 2 /\ Lower(fn[Len(fn)]) \in {"aac", "wma", "flac", "m4a", "ogg", "wav", "mp3"})

\* The specification's classifier: the extension, case-insensitively, is listed.
IsAudioSpec(fn) == Len(fn) >= 2 /\ Lower(fn[Len(fn)]) \in SpecAudioExtensions

\* filename.replace(/\.[^/.]+$/, ""): drop a final, non-empty extension.
StripExtension(fn) ==
    IF Len(fn) >= 2 /\ fn[Len(fn)] # "" THEN SubSeq(fn, 1, Len(fn) - 1) ELSE fn

\* ({ url, ...rest }) => rest
StripUrlMutant(s) == s

StripUrl(s) == [k \in DOMAIN s \ {"url"} |-> s[k]]

\* library.map(({ url, ...rest }) => rest)
StripAllMutant(lib) == [i \in 1..Len(lib) - 1 |-> StripUrl(lib[i])]

StripAll(lib) == [i \in 1..Len(lib) |-> StripUrl(lib[i])]

Max(S) == CHOOSE x \in S : \A y \in S : y <= x

\* ------------------------------------------------------------------- state
VARIABLES
    mode,             \* the session: "rw" (native handle), "ro" (fallback file set),
                      \* "none" (no folder chosen)
    session,          \* folderName, savedFolder (App state), the stored handle, the picker
    loading,          \* App state: the loading flag, and the handler awaiting scanLibrary
    runs,             \* the batch callbacks, each with what it closed over, await by await
    files,            \* names of the files the session's folder holds
    disk,             \* sonicflow_data.json in the folder: a document or NoDoc
    backup,           \* the local backup of the same document, or NoDoc
    sounds,           \* App state: the in-memory library
    customCategories, \* App state: the custom categories
    confirmDialog,    \* App state: the open confirmation and what its callback closed over
    isBatchProcessing,\* App state
    cancelScanRef,    \* App ref: cancellation requested
    batch,            \* the batch run in flight: its loop position and locals
    toast,            \* the last toast shown
    nextId,           \* ids drawn so far (Math.random never repeats one here)
    scanCount,        \* scans done; a scan's object URLs carry its number
    ops,              \* gestures so far
    written,          \* history: the library and categories last handed to saveMetadata
    firstId,          \* history: file name -> id given at first discovery, 0 before it
    last              \* history: the handler that ran last and the state it started from

vars == << mode, session, runs, loading, files, disk, backup, sounds, customCategories, confirmDialog,
           isBatchProcessing, cancelScanRef, batch, toast, nextId, scanCount,
           ops, written, firstId, last >>

NoDoc == [absent |-> TRUE]
NoSound == [undefined |-> TRUE]
NoDialog == [kind |-> "none"]

\* folderName and savedFolder of the App, whether a handle is durably stored, and
\* whether the fallback file input has been opened.
FOLDER == "sfx"

NoSession == [folderName |-> "none", savedFolder |-> "none", saved |-> FALSE,
              picker |-> FALSE]

NativeSession == [folderName |-> FOLDER, savedFolder |-> FOLDER, saved |-> TRUE,
                  picker |-> FALSE]

FallbackSession == [folderName |-> "sfx (Session)", savedFolder |-> "none",
                    saved |-> FALSE, picker |-> FALSE]

\* scanLibrary's first line: without a folder it throws.
NoFolderSelectedMutant(m) == FALSE

NoFolderSelected(m) == m = "none"
NoBatch == [kind |-> "idle"]

\* The loading flag, and which handler is awaiting scanLibrary.
NotLoading == [on |-> FALSE, pending |-> "none"]

\* A batch callback: where it is (no callback, awaiting the service for the head of
\* todo, awaiting saveMetadata, returned), its local variables and what it closed
\* over; whether cancellation was requested while it ran, the results it had by
\* then, the results it has, and the library it gave saveMetadata.
NoRun == [ phase |-> "none", todo |-> << >>, currentLib |-> << >>, startLib |-> << >>,
           customCategories |-> << >>, cancelled |-> FALSE, doneAtCancel |-> {},
           done |-> {}, aiFailed |-> {}, snapshot |-> << >> ]

\* Every name a file of the folder can have, in the order the directory lists them.
HitWav == <<"hit", "wav">>
FileOrder == << Kick, Snare, Boom, HitWav, SubTom, DeepRim >>
AllNames == Range(FileOrder)

\* --------------------------------------------------------- metadata store
EmptyDoc == [sounds |-> << >>, customCategories |-> << >>]

ReadDiskMetadataMutant(d) == NoDoc

\* Step 1 of the scan: the on-disk file if it can be read and parsed, else nothing.
ReadDiskMetadata(d) == IF d # NoDoc THEN d ELSE NoDoc

\* readMetadata's precedence: the on-disk file for a read-write session, else the
\* local backup, else an empty record set.
ReadMetadata(m, d, b) ==
    IF m = "rw" /\ ReadDiskMetadata(d) # NoDoc THEN ReadDiskMetadata(d)
    ELSE IF b # NoDoc THEN b
    ELSE EmptyDoc

\* The document saveMetadata serialises: every record without its url, and the
\* custom categories.  JSON.stringify and JSON.parse keep what the records hold
\* (strings, finite numbers, booleans, arrays of strings) as it is.
StorageData(lib, cats) == [sounds |-> StripAll(lib), customCategories |-> cats]

\* saveMetadata: the local backup first, then the on-disk file of a read-write session,
\* each overwritten whole.
BackupAfterSave(lib, cats) == StorageData(lib, cats)

DiskAfterSave(m, d, lib, cats) == IF m = "rw" THEN StorageData(lib, cats) ELSE d

SaveMetadata(lib, cats) ==
    /\ backup' = BackupAfterSave(lib, cats)
    /\ disk' = DiskAfterSave(mode, disk, lib, cats)
    /\ written' = [sounds |-> lib, customCategories |-> cats]

\* ------------------------------------------------------------- reconciler
\* How many folders below the root a file is.
Depth(fn) ==
    CASE fn[1] = "drums/tom" -> 1
      [] fn[1] = "drums/old/rim" -> 2
      [] OTHER -> 0

\* rootHandle.values() with entry.kind === 'file': the files directly in the root;
\* an entry that is a directory is passed over.
InRoot(fn) == Depth(fn) = 0

\* Step 2: the directory's entries the classifier accepts, in listing order.
AudioFilesMutant(fs) ==
    SelectSeq(FileOrder \o FileOrder, LAMBDA f : f \in fs /\ InRoot(f) /\ IsAudioScan(f))

AudioFiles(fs) == SelectSeq(FileOrder, LAMBDA f : f \in fs /\ InRoot(f) /\ IsAudioScan(f))

\* new Map(metadata.sounds.map(s => [s.filename, s])).get(filename): of several
\* records with one filename the last one stays in the map.
ExistingGetMutant(metaSounds, filename) == NoSound

ExistingGet(metaSounds, filename) ==
    LET hits == { i \in 1..Len(metaSounds) : metaSounds[i].filename = filename } IN
    IF hits = {} THEN NoSound ELSE metaSounds[Max(hits)]

\* URL.createObjectURL(file) during scan number n.
ObjectUrl(n, filename) == [scan |-> n, file |-> filename, upload |-> 0]

\* The record synthesised for a file no metadata record names.
NewSound(id, filename, url) ==
    [ id |-> id, name |-> StripExtension(filename), filename |-> filename,
      category |-> UNCATEGORIZED, tags |-> << NEWLY_DETECTED >>, url |-> url,
      duration |-> 0, source |-> "UPLOAD", isFavorite |-> FALSE ]

\* Step 3: one record per accepted file; a known file keeps its record and gets a
\* new url, an unknown one gets a new record with the next fresh id.
RECURSIVE Reconcile(_, _, _, _)
Reconcile(metaSounds, audio, id, n) ==
    IF audio = << >> THEN << >>
    ELSE LET filename == Head(audio)
             found == ExistingGet(metaSounds, filename)
             url == ObjectUrl(n, filename)
             sound == IF found # NoSound THEN [ k \in DOMAIN found \cup {"url"} |->
                                                  IF k = "url" THEN url ELSE found[k] ]
                      ELSE NewSound(id, filename, url)
             rest == Reconcile(metaSounds, Tail(audio), IF found # NoSound THEN id ELSE id + 1, n)
         IN << sound >> \o rest

\* The file names of a listing that no metadata record names.
Unrecorded(metaSounds, audio) ==
    { f \in Range(audio) : ExistingGet(metaSounds, f) = NoSound }

\* ------------------------------------------------------------ mutation API
\* name.replace(/[^a-z0-9]/gi, '_').toLowerCase(): the dots between the components
\* become underscores.
RECURSIVE Sanitize(_)
Sanitize(name) ==
    IF name = << >> THEN ""
    ELSE IF Len(name) = 1 THEN Lower(name[1])
    ELSE Lower(name[1]) \o "_" \o Sanitize(Tail(name))

BlobIsWav(blobType) == blobType = "audio/wav"

\* saveSoundToFolder's file name: the record's, or one made from its name, with
\* ".wav" or ".mp3" appended unless it already ends so.
FinalFilename(sound, blobType) ==
    LET filename == IF sound.filename # << >> THEN sound.filename
                    ELSE << Sanitize(sound.name), "mp3" >>
    IN IF BlobIsWav(blobType) /\ ~EndsWith(filename, "wav") THEN Append(filename, "wav")
       ELSE IF ~EndsWith(filename, "mp3") /\ ~EndsWith(filename, "wav")
            THEN Append(filename, "mp3")
       ELSE filename

\* A fallback session cannot write into the folder.
WriteError(m) == IF m = "ro" THEN "READ_ONLY_MODE" ELSE "none"

\* saveSoundToFolder: the error it throws, or the file it wrote and the record
\* it returns.
SaveSoundToFolder(m, sound, blobType) ==
    IF WriteError(m) # "none" THEN [error |-> WriteError(m)]
    ELSE [ error |-> "none",
           filename |-> FinalFilename(sound, blobType),
           sound |-> [sound EXCEPT !.filename = FinalFilename(sound, blobType)] ]

\* The record the upload form builds for one file.
UploadedSound(id, fileName, info) ==
    [ id |-> id, name |-> info.name, category |-> info.category, tags |-> info.tags,
      url |-> [scan |-> 0, file |-> fileName, upload |-> id], duration |-> 5, source |-> "UPLOAD",
      isFavorite |-> FALSE, filename |-> fileName ]

\* handleAddSound's catch: the toast for the error caught.
AddSoundToastMutant(error) == "error: save failed"

AddSoundToast(error) ==
    IF error = "READ_ONLY_MODE" THEN "info: read-only" ELSE "error: save failed"

\* Whether handleAddSound goes on to steps 2 and 3 (no exception was thrown).
AddSoundProceeds(saved) == saved.error = "none"

\* sounds.map(s => s.id === id ? f(s) : s)
ReplaceById(lib, id, new) ==
    [ i \in 1..Len(lib) |-> IF lib[i].id = id THEN new ELSE lib[i] ]

ToggleFavorite(lib, id) ==
    [ i \in 1..Len(lib) |->
        IF lib[i].id = id THEN [lib[i] EXCEPT !.isFavorite = ~lib[i].isFavorite] ELSE lib[i] ]

\* Array.from(new Set([...DEFAULT_CATEGORIES, ...customCategories]))
AllCategoriesMutant(custom) == Range(DEFAULT_CATEGORIES)

AllCategories(custom) == Range(DEFAULT_CATEGORIES) \cup Range(custom)

\* customCategories.filter(c => c !== category)
WithoutCategory(custom, category) == SelectSeq(custom, LAMBDA c : c # category)

\* Step 2 of the delete-category callback: the records of the category move to
\* the uncategorized label.
Reassign(lib, category) ==
    [ i \in 1..Len(lib) |->
        IF lib[i].category = category THEN [lib[i] EXCEPT !.category = UNCATEGORIZED]
        ELSE lib[i] ]

\* The records the batch run picks.
IsUnclassified(s) ==
    \/ s.category = ""
    \/ s.category = UNCATEGORIZED
    \/ s.category = "Unknown"
    \/ NEWLY_DETECTED \in Range(s.tags)

Unclassified(lib) == SelectSeq(lib, IsUnclassified)

\* One iteration's update of the run's copy of the library.
ApplyInfo(lib, id, info) ==
    [ i \in 1..Len(lib) |->
        IF lib[i].id = id
        THEN [lib[i] EXCEPT !.name = info.name, !.category = info.category, !.tags = info.tags]
        ELSE lib[i] ]

\* ----------------------------------------------------------------- history
\* A handler during which an I/O call threw: which one (fault), and whether the
\* exception left the storage function that made the call (escaped).
RanFault(op, arg, prior, pre, preCustom, preBackup, fault, escaped) ==
    [ op |-> op, arg |-> arg, prior |-> prior, pre |-> pre,
      preCustom |-> preCustom, preBackup |-> preBackup,
      fault |-> fault, escaped |-> escaped ]

Ran(op, arg, prior, pre, preCustom, preBackup) ==
    RanFault(op, arg, prior, pre, preCustom, preBackup, "none", FALSE)

\* A handler of which nothing is remembered but that it ran.
RanPlain(op) == Ran("other", "none", NoDoc, << >>, << >>, NoDoc)

\* A scan that does not find a file ends the file's history: its record is dropped.
Forget(first, audio) ==
    [ f \in AllNames |-> IF f \in Range(audio) THEN first[f] ELSE 0 ]

\* The id each file of the library was first seen with, once it has one.
Discover(first, lib) ==
    [ f \in AllNames |->
        IF first[f] # 0 THEN first[f]
        ELSE LET hits == { i \in 1..Len(lib) : lib[i].filename = f } IN
             IF hits = {} THEN 0 ELSE lib[Max(hits)].id ]

Ids(lib) == { lib[i].id : i \in 1..Len(lib) }

\* -------------------------------------------------------------------- Init
Init ==
    /\ mode \in {"rw", "ro"}
    /\ session = (IF mode = "rw" THEN NativeSession ELSE FallbackSession)
    /\ runs = [i \in 1..MaxRuns |-> NoRun]
    /\ loading = NotLoading
    /\ files \in {{Kick}, {Kick, Snare}}
    /\ disk = NoDoc
    /\ backup = NoDoc
    /\ sounds = << >>
    /\ customCategories = << >>
    /\ confirmDialog = NoDialog
    /\ isBatchProcessing = FALSE
    /\ cancelScanRef = FALSE
    /\ batch = NoBatch
    /\ toast = "none"
    /\ nextId = 1
    /\ scanCount = 0
    /\ ops = 0
    /\ written = NoDoc
    /\ firstId = [f \in AllNames |-> 0]
    /\ last = Ran("init", "none", NoDoc, << >>, << >>, NoDoc)

\* ------------------------------------------------------------- environment
\* The user puts a file into the folder, outside the application.
EnvAddFile ==
    /\ ops < MaxOps
    /\ \E f \in DirNames \ files : files' = files \cup {f}
    /\ ops' = ops + 1
    /\ last' = RanPlain("env")
    /\ UNCHANGED << mode, session, runs, loading, disk, backup, written, sounds, customCategories, confirmDialog,
                    isBatchProcessing, cancelScanRef, batch, toast, nextId, scanCount,
                    firstId >>

\* The user removes a file from the folder, outside the application.
EnvRemoveFile ==
    /\ ops < MaxOps
    /\ \E f \in files : files' = files \ {f}
    /\ ops' = ops + 1
    /\ last' = RanPlain("env")
    /\ UNCHANGED << mode, session, runs, loading, disk, backup, written, sounds, customCategories, confirmDialog,
                    isBatchProcessing, cancelScanRef, batch, toast, nextId, scanCount,
                    firstId >>

\* --------------------------------------------------------------- handlers
\* loadLibrary: scanLibrary (read the metadata, list the folder, reconcile, save),
\* then the result becomes the App's state.
LoadLibrary ==
    /\ confirmDialog = NoDialog
    /\ ops < MaxOps
    /\ ~NoFolderSelected(mode)
    /\ LET meta == ReadMetadata(mode, disk, backup)
           audio == AudioFiles(files)
           fresh == Cardinality(Unrecorded(meta.sounds, audio))
           lib == Reconcile(meta.sounds, audio, nextId, scanCount + 1)
       IN /\ SaveMetadata(lib, meta.customCategories)
          /\ sounds' = lib
          /\ customCategories' = meta.customCategories
          /\ nextId' = nextId + fresh
          /\ firstId' = Discover(Forget(firstId, audio), lib)
          /\ last' = Ran("scan", IF last.op = "scan" THEN "again" ELSE "none", meta,
                          << >>, << >>, NoDoc)
    /\ scanCount' = scanCount + 1
    /\ ops' = ops + 1
    /\ UNCHANGED << mode, session, runs, loading, files, confirmDialog, isBatchProcessing, cancelScanRef, batch,
                    toast >>

\* handleAddSound, called by the upload form with the record of one file.
HandleAddSound ==
    /\ confirmDialog = NoDialog
    /\ ops < MaxOps
    /\ \E file \in Uploads, info \in AiResults :
          LET sound == UploadedSound(nextId, file.name, info)
              saved == SaveSoundToFolder(mode, sound, file.type)
          IN IF AddSoundProceeds(saved)
             THEN LET newLib == << saved.sound >> \o sounds IN
                  /\ files' = files \cup {saved.filename}
                  /\ sounds' = newLib
                  /\ SaveMetadata(newLib, customCategories)
                  /\ firstId' = Discover(firstId, << saved.sound >>)
                  /\ toast' = toast
             ELSE /\ toast' = AddSoundToast(saved.error)
                  /\ UNCHANGED << files, sounds, disk, backup, written, firstId >>
    /\ nextId' = nextId + 1
    /\ ops' = ops + 1
    /\ last' = Ran("add", "none", NoDoc, sounds, customCategories, backup)
    /\ UNCHANGED << mode, session, runs, loading, customCategories, confirmDialog, isBatchProcessing,
                    cancelScanRef, batch, scanCount >>

\* What a record mutation handler leaves alone.
MutationFrame ==
    UNCHANGED << mode, session, runs, loading, files, customCategories, confirmDialog, isBatchProcessing,
                 cancelScanRef, batch, nextId, scanCount, firstId >>

\* handleToggleFavorite
HandleToggleFavorite ==
    /\ confirmDialog = NoDialog
    /\ ops < MaxOps
    /\ \E id \in Ids(sounds) :
          LET newLib == ToggleFavorite(sounds, id) IN
          /\ sounds' = newLib
          /\ SaveMetadata(newLib, customCategories)
    /\ ops' = ops + 1
    /\ last' = RanPlain("favorite")
    /\ UNCHANGED toast
    /\ MutationFrame

\* handleUpdateSound
HandleUpdateSound(updated) ==
    LET newLib == ReplaceById(sounds, updated.id, updated) IN
    /\ sounds' = newLib
    /\ SaveMetadata(newLib, customCategories)

\* The list's inline rename: saveEdit calls handleUpdateSound with the new name.
SaveEdit ==
    /\ confirmDialog = NoDialog
    /\ ops < MaxOps
    /\ \E i \in 1..Len(sounds), editName \in RenameInputs :
          HandleUpdateSound([sounds[i] EXCEPT !.name = editName])
    /\ ops' = ops + 1
    /\ last' = RanPlain("rename")
    /\ UNCHANGED toast
    /\ MutationFrame

\* The list's AI rename of one record: handleMagicRename calls handleUpdateSound
\* with the service's name, category and tags.
HandleMagicRename ==
    /\ confirmDialog = NoDialog
    /\ ops < MaxOps
    /\ \E i \in 1..Len(sounds), info \in AiResults :
          HandleUpdateSound([sounds[i] EXCEPT !.name = info.name,
                                              !.category = info.category,
                                              !.tags = info.tags])
    /\ ops' = ops + 1
    /\ toast' = "success: renamed"
    /\ last' = RanPlain("retag")
    /\ MutationFrame

\* handleDropSoundToCategory: a record dragged onto one of the listed categories.
HandleDropSoundToCategory ==
    /\ confirmDialog = NoDialog
    /\ ops < MaxOps
    /\ \E soundId \in Ids(sounds),
          category \in AllCategories(customCategories) \cap DropTargets :
          LET hits == { i \in 1..Len(sounds) : sounds[i].id = soundId }
              sound == sounds[CHOOSE i \in hits : \A j \in hits : i <= j]
          IN IF sound.category = category
             THEN UNCHANGED << sounds, disk, backup, written, toast >>
             ELSE LET updatedSound == [sound EXCEPT !.category = category]
                      newLib == ReplaceById(sounds, soundId, updatedSound)
                  IN /\ sounds' = newLib
                     /\ SaveMetadata(newLib, customCategories)
                     /\ toast' = "success: moved"
    /\ ops' = ops + 1
    /\ last' = RanPlain("drop")
    /\ UNCHANGED << mode, session, runs, loading, files, customCategories, confirmDialog, isBatchProcessing,
                    cancelScanRef, batch, nextId, scanCount, firstId >>

\* handleCreateCategory
HandleCreateCategory ==
    /\ confirmDialog = NoDialog
    /\ ops < MaxOps
    /\ \E name \in CategoryInputs :
          IF name \in AllCategories(customCategories)
          THEN /\ toast' = "error: category exists"
               /\ UNCHANGED << customCategories, disk, backup, written >>
          ELSE LET newCustom == Append(customCategories, name) IN
               /\ customCategories' = newCustom
               /\ SaveMetadata(sounds, newCustom)
               /\ toast' = "success: category created"
    /\ ops' = ops + 1
    /\ last' = Ran("create", "none", NoDoc, sounds, customCategories, backup)
    /\ UNCHANGED << mode, session, runs, loading, files, sounds, confirmDialog, isBatchProcessing,
                    cancelScanRef, batch, nextId, scanCount, firstId >>

\* handleDeleteCategory: nothing for a default category, else the confirmation
\* opens; its callback closes over the library and the custom categories of now.
HandleDeleteCategory ==
    /\ confirmDialog = NoDialog
    /\ \E category \in AllCategories(customCategories) \cap DropTargets :
          IF category \in Range(DEFAULT_CATEGORIES)
          THEN confirmDialog' = confirmDialog
          ELSE confirmDialog' = [ kind |-> "delete", category |-> category,
                                  sounds |-> sounds, customCategories |-> customCategories ]
    /\ last' = RanPlain("delete-request")
    /\ UNCHANGED << mode, session, runs, loading, files, disk, backup, written, sounds, customCategories,
                    isBatchProcessing, cancelScanRef, batch, toast, nextId, scanCount,
                    ops, firstId >>

\* The confirmation of a category's deletion: the callback of handleDeleteCategory.
ConfirmDeleteCategory ==
    /\ confirmDialog.kind = "delete"
    /\ LET newCustom == WithoutCategory(confirmDialog.customCategories, confirmDialog.category)
           newLib == Reassign(confirmDialog.sounds, confirmDialog.category)
       IN /\ customCategories' = newCustom
          /\ sounds' = newLib
          /\ SaveMetadata(newLib, newCustom)
    /\ confirmDialog' = NoDialog
    /\ toast' = "success: category deleted"
    /\ last' = Ran("delete", confirmDialog.category, NoDoc, sounds, customCategories, NoDoc)
    /\ UNCHANGED << mode, session, runs, loading, files, isBatchProcessing, cancelScanRef, batch, nextId, scanCount,
                    ops, firstId >>

\* The confirmation dismissed: onCancel.
CancelDialog ==
    /\ confirmDialog # NoDialog
    /\ confirmDialog' = NoDialog
    /\ last' = RanPlain("dismiss")
    /\ UNCHANGED << mode, session, runs, loading, files, disk, backup, written, sounds, customCategories,
                    isBatchProcessing, cancelScanRef, batch, toast, nextId, scanCount,
                    ops, firstId >>

\* What the batch handlers leave alone.
BatchFrame ==
    UNCHANGED << mode, session, runs, loading, files, nextId, scanCount, firstId >>

\* handleCancelScan
HandleCancelScan ==
    /\ confirmDialog = NoDialog
    /\ isBatchProcessing
    /\ cancelScanRef' = TRUE
    /\ isBatchProcessing' = FALSE
    /\ toast' = "info: scan stopped"
    /\ last' = RanPlain("cancel")
    /\ UNCHANGED << disk, backup, written, sounds, customCategories, confirmDialog, batch, ops >>
    /\ BatchFrame

\* handleBatchAutoRename while no run is being processed: the unclassified records
\* are picked and, if there are any, the confirmation opens; its callback closes
\* over them, the library and the custom categories of now.
HandleBatchAutoRename ==
    /\ confirmDialog = NoDialog
    /\ ~isBatchProcessing
    /\ batch = NoBatch
    /\ ops < MaxOps
    /\ IF Unclassified(sounds) = << >>
       THEN /\ toast' = "success: all classified"
            /\ UNCHANGED confirmDialog
       ELSE /\ confirmDialog' = [ kind |-> "batch", unclassified |-> Unclassified(sounds),
                                   sounds |-> sounds, customCategories |-> customCategories ]
            /\ UNCHANGED toast
    /\ ops' = ops + 1
    /\ last' = RanPlain("batch-request")
    /\ UNCHANGED << disk, backup, written, sounds, customCategories, isBatchProcessing,
                    cancelScanRef, batch >>
    /\ BatchFrame

\* The confirmation of the batch run: the callback starts the loop.
ConfirmBatch ==
    /\ confirmDialog.kind = "batch"
    /\ confirmDialog' = NoDialog
    /\ isBatchProcessing' = TRUE
    /\ cancelScanRef' = FALSE
    /\ batch' = [ kind |-> "run", todo |-> confirmDialog.unclassified,
                  currentLib |-> confirmDialog.sounds,
                  customCategories |-> confirmDialog.customCategories ]
    /\ last' = RanPlain("batch-start")
    /\ UNCHANGED << disk, backup, written, sounds, customCategories, toast, ops >>
    /\ BatchFrame

\* One iteration of the loop: cancellation was not requested, the service answers
\* for the next record, the run's copy is updated and becomes the App's library.
BatchItem ==
    /\ batch # NoBatch
    /\ batch.todo # << >>
    /\ ~cancelScanRef
    /\ \E info \in AiResults :
          LET currentLib == ApplyInfo(batch.currentLib, Head(batch.todo).id, info) IN
          /\ batch' = [batch EXCEPT !.todo = Tail(batch.todo), !.currentLib = currentLib]
          /\ sounds' = currentLib
    /\ last' = RanPlain("batch-item")
    /\ UNCHANGED << disk, backup, written, customCategories, confirmDialog, isBatchProcessing,
                    cancelScanRef, toast, ops >>
    /\ BatchFrame

\* The loop is left (every record done, or cancellation seen): the run's copy is
\* saved with the custom categories the callback closed over.
BatchFinish ==
    /\ batch # NoBatch
    /\ batch.todo = << >> \/ cancelScanRef
    /\ SaveMetadata(batch.currentLib, batch.customCategories)
    /\ isBatchProcessing' = FALSE
    /\ batch' = NoBatch
    /\ toast' = IF cancelScanRef THEN toast ELSE "success: scan complete"
    /\ last' = RanPlain("batch-finish")
    /\ UNCHANGED << sounds, customCategories, confirmDialog, cancelScanRef, ops >>
    /\ BatchFrame

\* -------------------------------------------------------------------- Spec
Next ==
    \/ EnvAddFile
    \/ EnvRemoveFile
    \/ LoadLibrary
    \/ HandleAddSound
    \/ HandleToggleFavorite
    \/ SaveEdit
    \/ HandleMagicRename
    \/ HandleDropSoundToCategory
    \/ HandleCreateCategory
    \/ HandleDeleteCategory
    \/ ConfirmDeleteCategory
    \/ CancelDialog
    \/ HandleCancelScan
    \/ HandleBatchAutoRename
    \/ ConfirmBatch
    \/ BatchItem
    \/ BatchFinish

Spec == Init /\ [][Next]_vars

\* ------------------------------------------------------------ I/O faults
\* A scan of a read-write session in which saveMetadata's write of the on-disk
\* file throws (createWritable, write or close): the file stays as it was, the
\* exception leaves saveMetadata and scanLibrary, and loadLibrary's catch shows
\* the error instead of taking the result.
LoadLibraryWriteFails ==
    /\ confirmDialog = NoDialog
    /\ ops < MaxOps
    /\ mode = "rw"
    /\ LET meta == ReadMetadata(mode, disk, backup)
           audio == AudioFiles(files)
           fresh == Cardinality(Unrecorded(meta.sounds, audio))
           lib == Reconcile(meta.sounds, audio, nextId, scanCount + 1)
       IN /\ backup' = BackupAfterSave(lib, meta.customCategories)
          /\ written' = [sounds |-> lib, customCategories |-> meta.customCategories]
          /\ nextId' = nextId + fresh
          /\ last' = RanFault("scan", "none", meta, sounds, customCategories, backup,
                              "disk-write", TRUE)
    /\ toast' = "error: load failed"
    /\ scanCount' = scanCount + 1
    /\ ops' = ops + 1
    /\ UNCHANGED << mode, session, runs, loading, files, disk, sounds, customCategories, confirmDialog,
                    isBatchProcessing, cancelScanRef, batch, firstId >>

\* A scan of a read-write session whose metadata file cannot be read or parsed:
\* the catch of step 1 leaves nothing read from the disk, and the scan goes on.
LoadLibraryMetadataUnreadable ==
    /\ confirmDialog = NoDialog
    /\ ops < MaxOps
    /\ mode = "rw"
    /\ disk # NoDoc
    /\ LET meta == ReadMetadata(mode, NoDoc, backup)
           audio == AudioFiles(files)
           fresh == Cardinality(Unrecorded(meta.sounds, audio))
           lib == Reconcile(meta.sounds, audio, nextId, scanCount + 1)
       IN /\ SaveMetadata(lib, meta.customCategories)
          /\ sounds' = lib
          /\ customCategories' = meta.customCategories
          /\ nextId' = nextId + fresh
          /\ firstId' = Discover(Forget(firstId, audio), lib)
          /\ last' = RanFault("scan", "none", meta, sounds, customCategories, backup,
                              "disk-read", FALSE)
    /\ scanCount' = scanCount + 1
    /\ ops' = ops + 1
    /\ UNCHANGED << mode, session, runs, loading, files, confirmDialog, isBatchProcessing, cancelScanRef, batch,
                    toast >>

\* A scan in which handle.getFile() throws for one of the accepted files: the loop
\* of step 3 has no catch, the exception leaves scanLibrary before saveMetadata is
\* called, and loadLibrary's catch shows the error instead of taking the result.
LoadLibraryFileUnreadable ==
    /\ confirmDialog = NoDialog
    /\ ops < MaxOps
    /\ LET meta == ReadMetadata(mode, disk, backup)
           audio == AudioFiles(files)
       IN \E k \in 1..Len(audio) :
             /\ nextId' = nextId + Cardinality(Unrecorded(meta.sounds, SubSeq(audio, 1, k - 1)))
             /\ last' = RanFault("scan", "none", meta, sounds, customCategories, backup,
                                 "file-read", TRUE)
    /\ toast' = "error: load failed"
    /\ ops' = ops + 1
    /\ UNCHANGED << mode, session, runs, loading, files, disk, backup, written, sounds, customCategories,
                    confirmDialog, isBatchProcessing, cancelScanRef, batch, scanCount,
                    firstId >>

\* handleToggleFavorite in a read-write session in which saveMetadata's write of
\* the on-disk file throws: the library was set before the call, the exception
\* leaves saveMetadata and the handler, which has no catch.
HandleToggleFavoriteWriteFails ==
    /\ confirmDialog = NoDialog
    /\ ops < MaxOps
    /\ mode = "rw"
    /\ \E id \in Ids(sounds) :
          LET newLib == ToggleFavorite(sounds, id) IN
          /\ sounds' = newLib
          /\ backup' = BackupAfterSave(newLib, customCategories)
          /\ written' = [sounds |-> newLib, customCategories |-> customCategories]
    /\ ops' = ops + 1
    /\ last' = RanFault("other", "none", NoDoc, sounds, customCategories, backup,
                        "disk-write", TRUE)
    /\ UNCHANGED << disk, toast >>
    /\ MutationFrame

\* The scans and handlers above, among the ones they interleave with.
FaultNext ==
    \/ EnvAddFile
    \/ EnvRemoveFile
    \/ LoadLibrary
    \/ HandleAddSound
    \/ HandleToggleFavorite
    \/ HandleCreateCategory
    \/ LoadLibraryWriteFails
    \/ LoadLibraryMetadataUnreadable
    \/ LoadLibraryFileUnreadable
    \/ HandleToggleFavoriteWriteFails

FaultSpec == Init /\ [][FaultNext]_vars

\* --------------------------------------------------------- session gateway
\* The App as it is mounted: no folder chosen yet; a handle may be stored from an
\* earlier visit.
GatewayInit ==
    /\ mode = "none"
    /\ session \in { NoSession, [NoSession EXCEPT !.saved = TRUE] }
    /\ runs = [i \in 1..MaxRuns |-> NoRun]
    /\ loading = NotLoading
    /\ files \in {{Kick}, {Kick, Snare}}
    /\ disk = NoDoc
    /\ backup = NoDoc
    /\ sounds = << >>
    /\ customCategories = << >>
    /\ confirmDialog = NoDialog
    /\ isBatchProcessing = FALSE
    /\ cancelScanRef = FALSE
    /\ batch = NoBatch
    /\ toast = "none"
    /\ nextId = 1
    /\ scanCount = 0
    /\ ops = 0
    /\ written = NoDoc
    /\ firstId = [f \in AllNames |-> 0]
    /\ last = Ran("init", "none", NoDoc, << >>, << >>, NoDoc)

\* The loadLibrary a gateway handler ends with, for the session m it has just set.
ScanInto(m) ==
    LET meta == ReadMetadata(m, disk, backup)
        audio == AudioFiles(files)
        fresh == Cardinality(Unrecorded(meta.sounds, audio))
        lib == Reconcile(meta.sounds, audio, nextId, scanCount + 1)
    IN /\ backup' = BackupAfterSave(lib, meta.customCategories)
       /\ disk' = DiskAfterSave(m, disk, lib, meta.customCategories)
       /\ written' = [sounds |-> lib, customCategories |-> meta.customCategories]
       /\ sounds' = lib
       /\ customCategories' = meta.customCategories
       /\ nextId' = nextId + fresh
       /\ firstId' = Discover(Forget(firstId, audio), lib)
       /\ scanCount' = scanCount + 1

NoScan ==
    UNCHANGED << disk, backup, written, sounds, customCategories, nextId, firstId,
                 scanCount >>

\* disconnectSession followed by setSavedFolder(null): nothing stored, nothing shown.
DisconnectedMutant(s) == s

Disconnected(s) == [s EXCEPT !.saved = FALSE, !.savedFolder = "none"]

\* What the gateway handlers leave alone.
GatewayFrame ==
    UNCHANGED << files, isBatchProcessing, cancelScanRef, batch, runs, loading >>

\* The mount effect: checkSavedSession, and savedFolder set to what it found.
CheckSession ==
    /\ last.op = "init"
    /\ session' = [session EXCEPT !.savedFolder = IF session.saved THEN FOLDER ELSE @]
    /\ last' = RanPlain("check")
    /\ NoScan
    /\ GatewayFrame
    /\ UNCHANGED << mode, confirmDialog, toast, ops >>

\* Another tab of the application disconnects: the stored handle is gone, the
\* savedFolder this tab read when it was mounted stays.
EnvClearSavedSession ==
    /\ ops < MaxOps
    /\ session.saved
    /\ session.folderName = "none"
    /\ session' = [session EXCEPT !.saved = FALSE]
    /\ ops' = ops + 1
    /\ last' = RanPlain("env")
    /\ NoScan
    /\ GatewayFrame
    /\ UNCHANGED << mode, confirmDialog, toast >>

\* handleConnectFolder: openDirectory gives a handle, or throws because
\* showDirectoryPicker is not there, or throws because the user closed the picker.
HandleConnectFolder ==
    /\ ops < MaxOps
    /\ confirmDialog = NoDialog
    /\ session.folderName = "none"
    /\ \E outcome \in {"granted", "unsupported", "aborted"} :
          /\ last' = Ran("connect", outcome, NoDoc, sounds, customCategories, backup)
          /\ IF outcome = "granted"
             THEN /\ mode' = "rw"
                  /\ session' = NativeSession
                  /\ ScanInto("rw")
             ELSE /\ session' = [session EXCEPT !.picker = (outcome # "aborted")]
                  /\ NoScan
                  /\ UNCHANGED mode
    /\ ops' = ops + 1
    /\ GatewayFrame
    /\ UNCHANGED << confirmDialog, toast >>

\* handleFallbackChange: the change event of the fallback file input.
HandleFallbackChange ==
    /\ ops < MaxOps
    /\ session.picker
    /\ \E chosen \in BOOLEAN :
          /\ last' = Ran("fallback", IF chosen THEN "chosen" ELSE "empty", NoDoc, sounds,
                         customCategories, backup)
          /\ IF chosen
             THEN /\ mode' = "ro"
                  /\ session' = [session EXCEPT !.folderName = FallbackSession.folderName,
                                                !.picker = FALSE]
                  /\ ScanInto("ro")
             ELSE /\ session' = [session EXCEPT !.picker = FALSE]
                  /\ NoScan
                  /\ UNCHANGED mode
    /\ ops' = ops + 1
    /\ GatewayFrame
    /\ UNCHANGED << confirmDialog, toast >>

\* handleRestoreSession, behind the button the welcome screen shows for savedFolder:
\* restoreSession gives the stored handle, or fails because nothing is stored or
\* because the user declined the permission prompt; the catch clears the session.
HandleRestoreSession ==
    /\ ops < MaxOps
    /\ confirmDialog = NoDialog
    /\ session.folderName = "none"
    /\ session.savedFolder # "none"
    /\ \E granted \in BOOLEAN :
          LET outcome == IF ~session.saved THEN "no-saved-session"
                         ELSE IF granted THEN "granted" ELSE "permission-denied"
          IN /\ last' = Ran("restore", outcome, NoDoc, sounds, customCategories, backup)
             /\ IF outcome = "granted"
                THEN /\ mode' = "rw"
                     /\ session' = [session EXCEPT !.folderName = FOLDER]
                     /\ ScanInto("rw")
                     /\ UNCHANGED toast
                ELSE /\ toast' = "error: restore failed"
                     /\ session' = Disconnected(session)
                     /\ NoScan
                     /\ UNCHANGED mode
    /\ ops' = ops + 1
    /\ GatewayFrame
    /\ UNCHANGED confirmDialog

\* The welcome screen's other button: disconnectSession, then savedFolder cleared.
ForgetSavedFolder ==
    /\ ops < MaxOps
    /\ confirmDialog = NoDialog
    /\ session.folderName = "none"
    /\ session.savedFolder # "none"
    /\ session' = Disconnected(session)
    /\ ops' = ops + 1
    /\ last' = Ran("disconnect", "welcome", NoDoc, sounds, customCategories, backup)
    /\ NoScan
    /\ GatewayFrame
    /\ UNCHANGED << mode, confirmDialog, toast >>

\* handleDisconnect: asks for confirmation.
HandleDisconnect ==
    /\ ops < MaxOps
    /\ confirmDialog = NoDialog
    /\ session.folderName # "none"
    /\ confirmDialog' = [kind |-> "disconnect"]
    /\ ops' = ops + 1
    /\ last' = RanPlain("ask")
    /\ NoScan
    /\ GatewayFrame
    /\ UNCHANGED << mode, session, toast >>

\* The callback handleDisconnect gave the confirmation: disconnectSession gives up
\* the folder and the stored handle, then the App's state is cleared.
ConfirmDisconnect ==
    /\ confirmDialog.kind = "disconnect"
    /\ mode' = "none"
    /\ session' = NoSession
    /\ sounds' = << >>
    /\ confirmDialog' = NoDialog
    /\ last' = Ran("disconnect", "library", NoDoc, sounds, customCategories, backup)
    /\ GatewayFrame
    /\ UNCHANGED << disk, backup, written, customCategories, nextId, firstId, scanCount,
                    toast, ops >>

\* loadLibrary with no folder chosen: scanLibrary throws on its first line, and the
\* catch of loadLibrary shows the error.
LoadLibraryNoSession ==
    /\ ops < MaxOps
    /\ confirmDialog = NoDialog
    /\ NoFolderSelected(mode)
    /\ toast' = "error: load failed"
    /\ ops' = ops + 1
    /\ last' = RanFault("scan", "none", NoDoc, sounds, customCategories, backup,
                        "no-folder-selected", TRUE)
    /\ NoScan
    /\ GatewayFrame
    /\ UNCHANGED << mode, session, confirmDialog >>

GatewayNext ==
    \/ CheckSession
    \/ EnvClearSavedSession
    \/ HandleConnectFolder
    \/ HandleFallbackChange
    \/ HandleRestoreSession
    \/ ForgetSavedFolder
    \/ HandleDisconnect
    \/ ConfirmDisconnect
    \/ CancelDialog
    \/ LoadLibraryNoSession
    \/ LoadLibrary
    \/ EnvAddFile
    \/ HandleToggleFavorite

GatewaySpec == GatewayInit /\ [][GatewayNext]_vars

\* ------------------------------------------------ batch run, await by await
\* What the steps of a batch callback leave alone.
RunFrame ==
    UNCHANGED << mode, session, loading, files, nextId, scanCount, firstId >>

\* The callback of the batch confirmation up to its first await: the flags are
\* set, the loop is entered and the service is asked about the first record.
ConfirmRun ==
    /\ confirmDialog.kind = "batch"
    /\ \E i \in 1..MaxRuns :
          /\ runs[i].phase = "none"
          /\ \A j \in 1..(i - 1) : runs[j].phase # "none"
          /\ runs' = [runs EXCEPT ![i] =
                        [NoRun EXCEPT !.phase = "item",
                                      !.todo = confirmDialog.unclassified,
                                      !.currentLib = confirmDialog.sounds,
                                      !.startLib = confirmDialog.sounds,
                                      !.customCategories = confirmDialog.customCategories]]
    /\ confirmDialog' = NoDialog
    /\ isBatchProcessing' = TRUE
    /\ cancelScanRef' = FALSE
    /\ last' = RanPlain("batch-start")
    /\ UNCHANGED << disk, backup, written, sounds, customCategories, toast, ops, batch >>
    /\ RunFrame

\* handleCancelScan while callbacks are awaiting the service.
CancelRun ==
    /\ confirmDialog = NoDialog
    /\ isBatchProcessing
    /\ cancelScanRef' = TRUE
    /\ isBatchProcessing' = FALSE
    /\ toast' = "info: scan stopped"
    /\ runs' = [i \in 1..MaxRuns |->
                  IF runs[i].phase = "item"
                  THEN [runs[i] EXCEPT !.cancelled = TRUE, !.doneAtCancel = runs[i].done]
                  ELSE runs[i]]
    /\ last' = RanPlain("cancel")
    /\ UNCHANGED << disk, backup, written, sounds, customCategories, confirmDialog, batch,
                    ops >>
    /\ RunFrame

\* analyzeSoundInfo: the service's answer, or, when the call fails, what its catch
\* returns: the file name without its extension, separators turned into spaces
\* (the file names here hold none), the default category and the tag "error-ai".
AnalyzeFallback(filename) ==
    [ name |-> StripExtension(filename), category |-> UNCATEGORIZED,
      tags |-> << "error-ai" >> ]

AnalyzeSoundInfo(filename, failed, answer) ==
    IF failed THEN AnalyzeFallback(filename) ELSE answer

\* The library the callback gives saveMetadata after the loop.
FinalSnapshotMutant(run) == run.startLib

FinalSnapshot(run) == run.currentLib

\* The service answers (or the iteration throws) for the record a callback waits
\* for: the copy is updated and becomes the App's library, then the loop goes on
\* to its test of cancelScanRef and either asks about the next record or leaves
\* the loop and calls saveMetadata.
ItemSettles(i) ==
    /\ runs[i].phase = "item"
    /\ \E ok \in BOOLEAN, failed \in BOOLEAN, answer \in AiResults :
          LET run == runs[i]
              info == AnalyzeSoundInfo(Head(run.todo).filename, failed, answer)
              lib == IF ok THEN ApplyInfo(run.currentLib, Head(run.todo).id, info)
                     ELSE run.currentLib
              rest == Tail(run.todo)
          IN /\ sounds' = (IF ok THEN lib ELSE sounds)
             /\ runs' = [runs EXCEPT ![i] =
                           [run EXCEPT !.todo = rest,
                                       !.currentLib = lib,
                                       !.aiFailed = IF ok /\ failed
                                                    THEN @ \cup {Head(run.todo).id}
                                                    ELSE @,
                                       !.done = IF ok
                                                THEN @ \cup {[id |-> Head(run.todo).id,
                                                              info |-> info]}
                                                ELSE @,
                                       !.phase = IF rest # << >> /\ ~cancelScanRef
                                                 THEN "item" ELSE "saving"]]
    /\ last' = RanPlain("batch-item")
    /\ UNCHANGED << disk, backup, written, customCategories, confirmDialog,
                    isBatchProcessing, cancelScanRef, toast, ops, batch >>
    /\ RunFrame

\* saveMetadata of a callback that left the loop, and the statements after it.
RunSaves(i) ==
    /\ runs[i].phase = "saving"
    /\ SaveMetadata(FinalSnapshot(runs[i]), runs[i].customCategories)
    /\ runs' = [runs EXCEPT ![i] = [@ EXCEPT !.phase = "saved",
                                             !.snapshot = FinalSnapshot(runs[i])]]
    /\ isBatchProcessing' = FALSE
    /\ toast' = (IF cancelScanRef THEN toast ELSE "success: scan complete")
    /\ last' = RanPlain("batch-finish")
    /\ UNCHANGED << sounds, customCategories, confirmDialog, cancelScanRef, ops, batch >>
    /\ RunFrame

RunStep(i) == ItemSettles(i) \/ RunSaves(i)

BatchNext ==
    \/ LoadLibrary
    \/ HandleBatchAutoRename
    \/ CancelDialog
    \/ ConfirmRun
    \/ CancelRun
    \/ \E i \in 1..MaxRuns : ItemSettles(i)
    \/ \E i \in 1..MaxRuns : RunSaves(i)

BatchSpec == Init /\ [][BatchNext]_vars

\* The event loop resumes a callback once the promise it awaits has settled, and
\* the calls it awaits (the service, the file write) settle.
FairBatchSpec == BatchSpec /\ \A i \in 1..MaxRuns : WF_vars(RunStep(i))

\* ------------------------------------------------------------- subfolders
\* The user puts a file into a subfolder of the folder, outside the application.
EnvAddNestedFile ==
    /\ ops < MaxOps
    /\ \E f \in NestedNames \ files : files' = files \cup {f}
    /\ ops' = ops + 1
    /\ last' = RanPlain("env")
    /\ UNCHANGED << mode, session, runs, loading, disk, backup, written, sounds, customCategories,
                    confirmDialog, isBatchProcessing, cancelScanRef, batch, toast, nextId,
                    scanCount, firstId >>

WalkNext ==
    \/ EnvAddNestedFile
    \/ EnvAddFile
    \/ EnvRemoveFile
    \/ LoadLibrary
    \/ HandleToggleFavorite

WalkSpec == Init /\ [][WalkNext]_vars

\* ------------------------------------------------------- upload of several
\* processFiles given two files: for each in turn a record is built and onUpload is
\* awaited.  onUpload is the handleAddSound of the render in which the files were
\* chosen, so both calls prepend to the library of that render.
ProcessFiles ==
    /\ confirmDialog = NoDialog
    /\ ops < MaxOps
    /\ \E first \in Uploads, second \in Uploads, info \in AiResults :
          LET closure == sounds
              one == SaveSoundToFolder(mode, UploadedSound(nextId, first.name, info),
                                       first.type)
              two == SaveSoundToFolder(mode, UploadedSound(nextId + 1, second.name, info),
                                       second.type)
          IN /\ first # second
             /\ IF AddSoundProceeds(one) /\ AddSoundProceeds(two)
                THEN LET newLib == << two.sound >> \o closure IN
                     /\ files' = files \cup {one.filename, two.filename}
                     /\ sounds' = newLib
                     /\ SaveMetadata(newLib, customCategories)
                     /\ firstId' = Discover(Discover(firstId, << one.sound >>),
                                            << two.sound >>)
                     /\ toast' = "success: uploaded"
                ELSE /\ toast' = "info: read-only"
                     /\ UNCHANGED << files, sounds, disk, backup, written, firstId >>
    /\ nextId' = nextId + 2
    /\ ops' = ops + 1
    /\ last' = Ran("upload", "none", NoDoc, sounds, customCategories, backup)
    /\ UNCHANGED << mode, session, runs, loading, customCategories, confirmDialog,
                    isBatchProcessing, cancelScanRef, batch, scanCount >>

UploadNext ==
    \/ ProcessFiles
    \/ HandleAddSound
    \/ LoadLibrary
    \/ EnvAddFile
    \/ HandleToggleFavorite

UploadSpec == Init /\ [][UploadNext]_vars

\* -------------------------------------------------------- change of folder
\* Another folder the user may choose after a disconnect, and the files it holds.
OTHER_FOLDER == "loops"
OtherFiles == {Snare}

\* handleConnectFolder with the picker granted for the other folder: rootHandle is
\* that folder's handle from now on, and loadLibrary scans it.  Nothing tells a
\* batch callback that is still awaiting.
HandleConnectOtherFolder ==
    /\ ops < MaxOps
    /\ confirmDialog = NoDialog
    /\ session.folderName = "none"
    /\ mode' = "rw"
    /\ session' = [NativeSession EXCEPT !.folderName = OTHER_FOLDER,
                                        !.savedFolder = OTHER_FOLDER]
    /\ files' = OtherFiles
    /\ LET meta == ReadMetadata("rw", NoDoc, backup)
           audio == AudioFiles(OtherFiles)
           fresh == Cardinality(Unrecorded(meta.sounds, audio))
           lib == Reconcile(meta.sounds, audio, nextId, scanCount + 1)
       IN /\ backup' = BackupAfterSave(lib, meta.customCategories)
          /\ disk' = DiskAfterSave("rw", NoDoc, lib, meta.customCategories)
          /\ written' = [sounds |-> lib, customCategories |-> meta.customCategories]
          /\ sounds' = lib
          /\ customCategories' = meta.customCategories
          /\ nextId' = nextId + fresh
          /\ firstId' = Discover(Forget(firstId, audio), lib)
          /\ last' = Ran("connect", "granted", meta, sounds, customCategories, backup)
    /\ scanCount' = scanCount + 1
    /\ ops' = ops + 1
    /\ UNCHANGED << runs, loading, confirmDialog, isBatchProcessing, cancelScanRef, batch,
                    toast >>

SwapNext ==
    \/ LoadLibrary
    \/ HandleToggleFavorite
    \/ HandleBatchAutoRename
    \/ ConfirmBatch
    \/ BatchItem
    \/ BatchFinish
    \/ HandleCancelScan
    \/ CancelDialog
    \/ HandleDisconnect
    \/ ConfirmDisconnect
    \/ HandleConnectOtherFolder

SwapSpec == Init /\ [][SwapNext]_vars

\* --------------------------------------------------------- the loading flag
\* A handler up to its await of scanLibrary: the loading flag is set.  The handlers
\* are loadLibrary, and the handleRescan and handleConnectFolder of the App's
\* first variant.
ScanHandlers == {"loadLibrary", "handleRescan", "handleConnectFolder"}

BeginScan ==
    /\ ops < MaxOps
    /\ confirmDialog = NoDialog
    /\ ~loading.on
    /\ loading.pending = "none"
    /\ ~NoFolderSelected(mode)
    /\ \E handler \in ScanHandlers : loading' = [on |-> TRUE, pending |-> handler]
    /\ ops' = ops + 1
    /\ last' = RanPlain("load")
    /\ NoScan
    /\ UNCHANGED << mode, session, runs, files, confirmDialog, isBatchProcessing,
                    cancelScanRef, batch, toast >>

\* Whether the handler reaches its setLoading(false) when scanLibrary rejects:
\* loadLibrary catches and goes on; handleRescan has no catch, and the catch of
\* handleConnectFolder comes after its setLoading(false).
ClearsLoadingOnFailure(handler) == handler = "loadLibrary"

\* scanLibrary resolves: the handler takes the library and clears the flag.
ScanResolves ==
    /\ loading.pending # "none"
    /\ ScanInto(mode)
    /\ loading' = NotLoading
    /\ last' = Ran("scan", "none", ReadMetadata(mode, disk, backup), sounds,
                   customCategories, backup)
    /\ UNCHANGED << mode, session, runs, files, confirmDialog, isBatchProcessing,
                    cancelScanRef, batch, toast, ops >>

\* scanLibrary rejects (a file or the metadata file could not be read or written).
ScanRejects ==
    /\ loading.pending # "none"
    /\ loading' = [on |-> ~ClearsLoadingOnFailure(loading.pending), pending |-> "none"]
    /\ toast' = (IF loading.pending = "loadLibrary" THEN "error: load failed" ELSE toast)
    /\ last' = RanFault("scan", "none", NoDoc, sounds, customCategories, backup,
                        "file-read", TRUE)
    /\ NoScan
    /\ UNCHANGED << mode, session, runs, files, confirmDialog, isBatchProcessing,
                    cancelScanRef, batch, ops >>

ScanSettles == ScanResolves \/ ScanRejects

\* While the flag is set the App renders the loading screen only: the handlers
\* of the library screen can be reached when it is not.
LibraryToggleFavorite == ~loading.on /\ HandleToggleFavorite

LibraryCreateCategory == ~loading.on /\ HandleCreateCategory

LoadNext ==
    \/ BeginScan
    \/ ScanResolves
    \/ ScanRejects
    \/ EnvAddFile
    \/ EnvRemoveFile
    \/ LibraryToggleFavorite
    \/ LibraryCreateCategory

\* The promise of scanLibrary settles, and the event loop resumes the handler.
LoadSpec == Init /\ [][LoadNext]_vars /\ WF_vars(ScanSettles)

\* -------------------------------------------------------------- properties
\* C1: in every reachable state no two records of the in-memory library share a
\* filename, also after handleAddSound was given a record whose final filename is
\* that of a record already in the library.
OneRecordPerFilename ==
    \A i, j \in 1..Len(sounds) : sounds[i].filename = sounds[j].filename => i = j

\* C2: after every scan, each record of the result has the id its file was given
\* when the file was first discovered.
IdStableAcrossRescans ==
    last.op = "scan" =>
        \A i \in 1..Len(sounds) : sounds[i].id = firstId[sounds[i].filename]

\* The records of a library as they are compared across scans: every field but url.
WithoutUrl(lib) == [ i \in 1..Len(lib) |-> [ k \in DOMAIN lib[i] \ {"url"} |-> lib[i][k] ] ]

\* C3: a scan that directly follows a scan (nothing changed in the folder, no
\* handler ran in between) yields the records of the first, in every field but url,
\* and leaves the persisted document as the first left it.
IdempotentRescan ==
    [][ (last.op = "scan" /\ last'.op = "scan") =>
            /\ WithoutUrl(sounds') = WithoutUrl(sounds)
            /\ customCategories' = customCategories
            /\ disk' = disk
            /\ backup' = backup ]_vars

\* A second scan in a row has run, over a library that is not empty.
RescannedInARow ==
    last.op = "scan" /\ last.arg = "again" /\ sounds # << >> /\ backup # NoDoc

\* The file names the metadata read by the last scan records and the folder has lost.
RemovedSincePrior ==
    { last.prior.sounds[i].filename : i \in 1..Len(last.prior.sounds) } \ files

\* C4: after a scan that found one recorded file removed, no record of the result
\* or of the persisted document names that file, and every other record of the
\* prior metadata is in the result and in the persisted document with every field
\* (but url) as it was.
DeletionDetection ==
    (last.op = "scan" /\ Cardinality(RemovedSincePrior) = 1) =>
        /\ \A r \in Range(sounds) \cup Range(backup.sounds) : r.filename \notin RemovedSincePrior
        /\ mode = "rw" => \A r \in Range(disk.sounds) : r.filename \notin RemovedSincePrior
        /\ \A r \in Range(last.prior.sounds) :
              r.filename \notin RemovedSincePrior =>
                  /\ r \in Range(WithoutUrl(sounds))
                  /\ r \in Range(backup.sounds)
                  /\ mode = "rw" => r \in Range(disk.sounds)

\* The supported audio files of the folder that the metadata read by the last scan
\* does not record.
NewSincePrior ==
    { f \in files : IsAudioSpec(f)
                    /\ \A i \in 1..Len(last.prior.sounds) : last.prior.sounds[i].filename # f }

\* C5: after a scan that found one supported audio file the prior metadata does not
\* record, the result has exactly one record that the prior metadata has not: it is
\* the file's, with a fresh id, the uncategorized label, the sentinel tag, duration 0
\* and the file name without its extension as its name; the records of the prior
\* metadata that are in the result have the ids they had.
NewFileSynthesis ==
    (last.op = "scan" /\ Cardinality(NewSincePrior) = 1) =>
        LET new == { i \in 1..Len(sounds) : WithoutUrl(sounds)[i] \notin Range(last.prior.sounds) }
        IN /\ Cardinality(new) = 1
           /\ \A i \in new :
                 /\ sounds[i].filename \in NewSincePrior
                 /\ \A r \in Range(last.prior.sounds) : r.id # sounds[i].id
                 /\ sounds[i].category = UNCATEGORIZED
                 /\ sounds[i].tags = << NEWLY_DETECTED >>
                 /\ sounds[i].duration = 0
                 /\ Len(sounds[i].filename) >= 2
                 /\ sounds[i].name = SubSeq(sounds[i].filename, 1, Len(sounds[i].filename) - 1)
           /\ \A i \in 1..Len(sounds) : \A r \in Range(last.prior.sounds) :
                 r.filename = sounds[i].filename => r.id = sounds[i].id

\* C6: in every reachable state no record of the persisted document, on disk or in
\* the local backup, has a url field.
PersistedWithoutUrl ==
    \A d \in {disk, backup} :
        d # NoDoc => \A i \in 1..Len(d.sounds) : "url" \notin DOMAIN d.sounds[i]

\* A library whose records carry urls has been written to disk and to the backup.
UrlsWrittenOut ==
    /\ written # NoDoc /\ written.sounds # << >>
    /\ \A i \in 1..Len(written.sounds) : "url" \in DOMAIN written.sounds[i]
    /\ disk # NoDoc /\ disk.sounds # << >>
    /\ backup # NoDoc /\ backup.sounds # << >>

CategoryDeletionSafety ==
    last.op = "delete" =>
        /\ \A i \in 1..Len(sounds) : sounds[i].category # last.arg
        /\ last.arg \notin AllCategories(customCategories)
        /\ Len(sounds) = Len(last.pre)
        /\ \A i \in 1..Len(last.pre) :
              /\ sounds[i].id = last.pre[i].id
              /\ sounds[i].category =
                    IF last.pre[i].category = last.arg THEN UNCATEGORIZED
                    ELSE last.pre[i].category

\* C9: in every reachable state the category of every record of the library is one
\* of the listed categories, the default ones and the custom ones.
CategoryInCategorySet ==
    \A i \in 1..Len(sounds) : sounds[i].category \in AllCategories(customCategories)

AddedRecordKeptAndWritten ==
    last.op = "add" =>
        /\ \E i \in 1..Len(sounds) : sounds[i].id = nextId - 1
        /\ written # NoDoc
        /\ \E i \in 1..Len(written.sounds) : written.sounds[i].id = nextId - 1

\* C12: when the write of the on-disk file fails, no exception leaves saveMetadata,
\* a scan still gives its merged library to the App, and the in-memory library and
\* the local backup hold the payload that was being written.
DiskWriteFailureNonFatal ==
    last.fault = "disk-write" =>
        /\ ~last.escaped
        /\ WithoutUrl(sounds) = WithoutUrl(written.sounds)
        /\ backup = [ sounds |-> WithoutUrl(written.sounds),
                      customCategories |-> written.customCategories ]

ScanWithoutSessionFails ==
    [][ (mode = "none" /\ last'.op = "scan" /\ ops' = ops + 1) =>
            /\ last'.fault = "no-folder-selected"
            /\ last'.escaped
            /\ UNCHANGED << disk, backup, written, sounds, customCategories, scanCount,
                            mode >> ]_vars

\* loadLibrary ran with no folder chosen and showed its error.
ScannedWithoutSession ==
    /\ last.op = "scan"
    /\ last.fault = "no-folder-selected"
    /\ mode = "none"
    /\ toast = "error: load failed"

\* C16: when reading one file fails during a scan, the scan still completes: no
\* exception leaves it, at most the offending file is without a record in the
\* library, and the merged library is what was persisted.
FileReadFailureSkipsEntry ==
    last.fault = "file-read" =>
        LET accepted == Range(AudioFiles(files))
            recorded == { sounds[i].filename : i \in 1..Len(sounds) }
        IN /\ ~last.escaped
           /\ Cardinality(accepted \ recorded) <= 1
           /\ written # NoDoc
           /\ WithoutUrl(written.sounds) = WithoutUrl(sounds)

\* C17: after a handleConnectFolder that got no native handle, because the picker
\* API is not there or because the user closed the picker, the fallback file input
\* is open; and the session a fallback selection gives is read-only.
FallbackOfferedWithoutNativeSession ==
    /\ (last.op = "connect" /\ last.arg \in {"unsupported", "aborted"}) => session.picker
    /\ (last.op = "fallback" /\ last.arg = "chosen") => mode = "ro"

CancelledRunStartsNoItem ==
    [][ \A i \in 1..MaxRuns :
            (runs[i].phase = "item" /\ runs[i].cancelled) =>
                (runs'[i].phase # "item" \/ runs'[i].todo = runs[i].todo) ]_vars

\* C20: a batch callback for which cancellation was requested eventually gives
\* saveMetadata a library that holds every result it had when cancellation was
\* requested.
Kept(run) ==
    \A d \in run.doneAtCancel :
        \E k \in 1..Len(run.snapshot) :
            /\ run.snapshot[k].id = d.id
            /\ run.snapshot[k].name = d.info.name
            /\ run.snapshot[k].category = d.info.category
            /\ run.snapshot[k].tags = d.info.tags

CancelledRunPersistsCompletedWork ==
    \A i \in 1..MaxRuns :
        runs[i].cancelled ~> (runs[i].phase = "saved" /\ Kept(runs[i]))

\* A callback that had a result when it was cancelled, and has called saveMetadata.
CancelledRunSaved ==
    \E i \in 1..MaxRuns :
        /\ runs[i].cancelled
        /\ runs[i].doneAtCancel # {}
        /\ runs[i].phase = "saved"
        /\ written.sounds = runs[i].snapshot

\* C21: while a batch callback is awaiting the service or saveMetadata, no other
\* handler calls saveMetadata or scans.
OneOperationInFlight ==
    [][ ((\E i \in 1..MaxRuns : runs[i].phase \in {"item", "saving"}) /\ runs' = runs) =>
            (written' = written /\ scanCount' = scanCount) ]_vars

\* C22: a record for which the service's call failed during a batch run has, in
\* the run's library, the name, the category and the tags it had when the run began.
AiFailureKeepsDefaults ==
    \A i \in 1..MaxRuns :
        \A id \in runs[i].aiFailed :
            \A k \in 1..Len(runs[i].currentLib) :
                runs[i].currentLib[k].id = id =>
                    \E j \in 1..Len(runs[i].startLib) :
                        /\ runs[i].startLib[j].id = id
                        /\ runs[i].startLib[j].name = runs[i].currentLib[k].name
                        /\ runs[i].startLib[j].category = runs[i].currentLib[k].category
                        /\ runs[i].startLib[j].tags = runs[i].currentLib[k].tags

ClassifierUniform ==
    /\ \A f \in files : IsAudioScan(f) <=> IsAudioSpec(f)
    /\ \A u \in Uploads : IsAudioUpload(u.name, u.type) <=> IsAudioSpec(u.name)

\* C25: after a scan of a read-write session, a file the scan's test accepts that
\* is directly inside a subfolder of the root has a record under its path, and a
\* file two or more folders down has none.
ScanWalksOneLevel ==
    (last.op = "scan" /\ mode = "rw") =>
        \A f \in files :
            LET recorded == \E i \in 1..Len(sounds) : sounds[i].filename = f IN
            /\ (Depth(f) = 1 /\ IsAudioScan(f)) => recorded
            /\ Depth(f) >= 2 => ~recorded

\* C26: the library a scan returns holds exactly one record for each file of the
\* listing that the scan's test accepts, and no record for any other name, also
\* when the prior metadata names a file in several records.
ScanReturnsOneRecordPerFile ==
    last.op = "scan" =>
        /\ \A f \in files :
              (InRoot(f) /\ IsAudioScan(f)) =>
                  Cardinality({ i \in 1..Len(sounds) : sounds[i].filename = f }) = 1
        /\ \A i \in 1..Len(sounds) :
              /\ sounds[i].filename \in files
              /\ InRoot(sounds[i].filename) /\ IsAudioScan(sounds[i].filename)

\* A scan whose prior metadata named one file in two records.
ScannedOverDuplicates ==
    /\ last.op = "scan"
    /\ \E i, j \in 1..Len(last.prior.sounds) :
          i # j /\ last.prior.sounds[i].filename = last.prior.sounds[j].filename
    /\ Len(sounds) > 0

\* C27: after processFiles uploaded two files in a read-write session, the library
\* and the persisted document hold both new records and every record the library
\* held before.
UploadOfSeveralKeepsAll ==
    (last.op = "upload" /\ mode = "rw") =>
        /\ \A id \in {nextId - 2, nextId - 1} :
              /\ \E i \in 1..Len(sounds) : sounds[i].id = id
              /\ \E i \in 1..Len(disk.sounds) : disk.sounds[i].id = id
        /\ \A k \in 1..Len(last.pre) :
              /\ \E i \in 1..Len(sounds) : sounds[i].id = last.pre[k].id
              /\ \E i \in 1..Len(disk.sounds) : disk.sounds[i].id = last.pre[k].id

\* C28: a favorite flag is changed by handleToggleFavorite only, so no step of a
\* batch run takes one back: a record keeps its flag across the step in the
\* in-memory library, and what the run persists has the flags of the library.
SameFavorites(before, after) ==
    \A i \in 1..Len(before), j \in 1..Len(after) :
        before[i].id = after[j].id => before[i].isFavorite = after[j].isFavorite

NoMutationLostToBatch ==
    [][ (batch # NoBatch /\ batch' # batch) =>
            /\ SameFavorites(sounds, sounds')
            /\ (written' # written => SameFavorites(sounds, written'.sounds)) ]_vars

\* C29: while the other folder is the session's folder, the library shown and the
\* metadata file in the folder hold records of that folder's files only.
RecordsBelongToFolder ==
    session.folderName = OTHER_FOLDER =>
        /\ \A i \in 1..Len(sounds) : sounds[i].filename \in OtherFiles
        /\ disk # NoDoc => \A i \in 1..Len(disk.sounds) : disk.sounds[i].filename \in OtherFiles

\* C30: whenever the loading flag is set it is cleared again, whether scanLibrary
\* resolves or rejects.
LoadingEventuallyCleared ==
    loading.on ~> ~loading.on

====
